---- MODULE Spec2Model ----
(***************************************************************************)
(* PreSonus AudioBox 22 VSL mixer quirk (sound/usb/audiobox_vsl.c).        *)
(*                                                                         *)
(* The model follows the driver: the two UAC2 control-transfer helpers,    *)
(* the volume and mute callbacks built on them, the registration helper    *)
(* and the initialization entry point.  The USB transport and the device   *)
(* behind it are the simulated echoing device of the design document: a    *)
(* successful SET stores the payload at the addressed Feature Unit         *)
(* control, a successful GET returns what is stored there.                 *)
(*                                                                         *)
(* A C `long` (64 bit on the amd64 build the driver names) is kept as two  *)
(* 32-bit words [hi, lo], both read as signed: its value is                *)
(* hi * 2^32 + (lo mod 2^32).  Assigning it to an s32 keeps lo.            *)
(***************************************************************************)
EXTENDS Integers, Sequences, FiniteSets, TLC

VARIABLES
    bInterfaceNumber,   \* mixer->hostif->desc.bInterfaceNumber
    device,             \* cell (unit, selector, channel) -> bytes the device holds
    registry,           \* controls added to the mixer, in order of registration
    attempts,           \* registrations attempted by snd_audiobox_vsl_init, in order
    initState,          \* "NotStarted", "Complete" or "Failed"
    ucontrol,           \* the caller's snd_ctl_elem_value: value.integer.value[0..1]
    last,               \* the most recent call: operation, unit, result, transactions
    running             \* per caller, the volume callback it is executing

vars == <<bInterfaceNumber, device, registry, attempts, initState, ucontrol, last,
          running>>

----------------------------------------------------------------------------
(* Bounds of the model *)

\* number of distinct error codes the transport (and the registry) can report
MaxErr == 1
\* half-width of the windows of device gains the codec specification starts from
Window == 128
\* largest size a direct call of the low-level helpers asks for
MaxSize == 5

\* callers that may be inside a volume callback at the same time
NumProcs == 3

----------------------------------------------------------------------------
(* Program constants *)

EINVAL == 22
ENOMEM == 12
UAC2_CS_CUR == 1
UAC2_FU_MUTE == 1
UAC2_FU_VOLUME == 2
VSL_FU_PLAYBACK_UNIT == 10
VSL_FU_CAPTURE_UNIT == 11
VSL_VOLUME_MIN_DB == -6000
VSL_VOLUME_MAX_DB == 1200

S16_MIN == -32768
S16_MAX == 32767

----------------------------------------------------------------------------
(* C arithmetic *)

\* C integer division: the quotient is truncated toward zero (b > 0)
TruncDiv(a, b) == IF a >= 0 THEN a \div b ELSE -((-a) \div b)

\* (s16)x for an int x: keep the low 16 bits, read them as signed
ToS16(x) == LET m == x % 65536 IN IF m >= 32768 THEN m - 65536 ELSE m

\* a long holding the (32-bit) value v, sign-extended
Long(v) == [hi |-> IF v < 0 THEN -1 ELSE 0, lo |-> v]

\* s32 x = <long>: the low word
LongToS32(l) == l.lo

\* the flag passed through without the inversion
LongNot_Identity(l) == IF l.hi = 0 /\ l.lo = 0 THEN 0 ELSE 1

\* !<long>
LongNot(l) == IF l.hi = 0 /\ l.lo = 0 THEN 1 ELSE 0

----------------------------------------------------------------------------
(* The transport and the simulated device behind it *)

Bytes == 0..255

\* the scalar device values the two Feature Units expose: (unit, selector, channel)
Cells ==
    {<<u, UAC2_FU_MUTE, 0>> : u \in {VSL_FU_PLAYBACK_UNIT, VSL_FU_CAPTURE_UNIT}}
    \cup {<<u, UAC2_FU_VOLUME, c>> :
            u \in {VSL_FU_PLAYBACK_UNIT, VSL_FU_CAPTURE_UNIT}, c \in {1, 2}}

\* error codes a control transfer can fail with (negative errno values)
TransportErrors == {-(EINVAL + k) : k \in 1..MaxErr}

\* outcome of one transaction on the bus: 0 = it completes, < 0 = it fails so
TransportOutcomes == {0} \cup TransportErrors

\* the first n elements of s (all of s when it is shorter)
Take(s, n) == SubSeq(s, 1, IF Len(s) < n THEN Len(s) ELSE n)

\* One control transfer on endpoint 0.  The device decodes the address from
\* wIndex (unit in the high byte) and wValue (selector high, channel low).
\* Returns the byte count or the negative error, the bytes transferred and
\* the device afterwards; a failed transfer leaves the device as it was.
snd_usb_ctl_msg(mem, dirIn, request, value, index, data, size, oc) ==
    LET cell == <<index \div 256, value \div 256, value % 256>>
        known == cell \in DOMAIN mem /\ request = UAC2_CS_CUR
    IN  IF oc < 0 THEN [ret |-> oc, data |-> <<>>, mem |-> mem]
        ELSE IF ~known THEN [ret |-> 0, data |-> <<>>, mem |-> mem]
        ELSE IF dirIn
             THEN [ret |-> Len(Take(mem[cell], size)),
                   data |-> Take(mem[cell], size), mem |-> mem]
             ELSE [ret |-> Len(Take(data, size)), data |-> Take(data, size),
                   mem |-> [mem EXCEPT ![cell] = Take(data, size)]]

\* the record of one transaction as it was handed to the bus: data is what
\* an OUT transfer was given to send, or what an IN transfer brought back
Tx(dirIn, request, value, index, size, data, ret) ==
    [dirIn |-> dirIn, request |-> request, wValue |-> value, wIndex |-> index,
     size |-> size, data |-> data, ret |-> ret]

----------------------------------------------------------------------------
(* Low-level UAC2 control transfer functions *)

\* audiobox_vsl_get_control issuing the transfer a second time when the first
\* one fails
audiobox_vsl_get_control_Retry(mixer, mem, unit_id, control_selector, channel, buf, size, oc) ==
    IF ~mixer.valid \/ buf.null
    THEN [ret |-> -EINVAL, txs |-> <<>>, bytes |-> buf.bytes, mem |-> mem]
    ELSE IF size = 0 \/ size > 4
    THEN [ret |-> -EINVAL, txs |-> <<>>, bytes |-> buf.bytes, mem |-> mem]
    ELSE LET value == control_selector * 256 + channel
             index == unit_id * 256 + mixer.ifnum
             r == snd_usb_ctl_msg(mem, TRUE, UAC2_CS_CUR, value, index,
                                  buf.bytes, size, oc)
             t == Tx(TRUE, UAC2_CS_CUR, value, index, size, r.data, r.ret)
         IN  IF r.ret < 0
             THEN [ret |-> r.ret, txs |-> <<t, t>>, bytes |-> buf.bytes, mem |-> r.mem]
             ELSE [ret |-> 0, txs |-> <<t>>,
                   bytes |-> r.data \o SubSeq(buf.bytes, Len(r.data) + 1, Len(buf.bytes)),
                   mem |-> r.mem]

\* audiobox_vsl_get_control: one GET_CUR.  mixer = [valid, ifnum]; buf.null
\* says whether the caller passed a NULL buffer.
audiobox_vsl_get_control(mixer, mem, unit_id, control_selector, channel, buf, size, oc) ==
    IF ~mixer.valid \/ buf.null
    THEN [ret |-> -EINVAL, txs |-> <<>>, bytes |-> buf.bytes, mem |-> mem]
    ELSE IF size = 0 \/ size > 4
    THEN [ret |-> -EINVAL, txs |-> <<>>, bytes |-> buf.bytes, mem |-> mem]
    ELSE LET value == control_selector * 256 + channel
             index == unit_id * 256 + mixer.ifnum
             r == snd_usb_ctl_msg(mem, TRUE, UAC2_CS_CUR, value, index,
                                  buf.bytes, size, oc)
             t == Tx(TRUE, UAC2_CS_CUR, value, index, size, r.data, r.ret)
         IN  IF r.ret < 0
             THEN [ret |-> r.ret, txs |-> <<t>>, bytes |-> buf.bytes, mem |-> r.mem]
             ELSE [ret |-> 0, txs |-> <<t>>,
                   bytes |-> r.data \o SubSeq(buf.bytes, Len(r.data) + 1, Len(buf.bytes)),
                   mem |-> r.mem]

\* audiobox_vsl_set_control addressing the unit without the interface number
audiobox_vsl_set_control_NoIfnum(mixer, mem, unit_id, control_selector, channel, buf, size, oc) ==
    IF ~mixer.valid \/ buf.null
    THEN [ret |-> -EINVAL, txs |-> <<>>, mem |-> mem]
    ELSE IF size = 0 \/ size > 4
    THEN [ret |-> -EINVAL, txs |-> <<>>, mem |-> mem]
    ELSE LET value == control_selector * 256 + channel
             index == unit_id * 256
             r == snd_usb_ctl_msg(mem, FALSE, UAC2_CS_CUR, value, index,
                                  buf.bytes, size, oc)
             t == Tx(FALSE, UAC2_CS_CUR, value, index, size,
                     Take(buf.bytes, size), r.ret)
         IN  IF r.ret < 0
             THEN [ret |-> r.ret, txs |-> <<t>>, mem |-> r.mem]
             ELSE [ret |-> 0, txs |-> <<t>>, mem |-> r.mem]

\* audiobox_vsl_set_control with the upper limit of the size check left out
audiobox_vsl_set_control_NoMaxSize(mixer, mem, unit_id, control_selector, channel, buf, size, oc) ==
    IF ~mixer.valid \/ buf.null
    THEN [ret |-> -EINVAL, txs |-> <<>>, mem |-> mem]
    ELSE IF size = 0
    THEN [ret |-> -EINVAL, txs |-> <<>>, mem |-> mem]
    ELSE LET value == control_selector * 256 + channel
             index == unit_id * 256 + mixer.ifnum
             r == snd_usb_ctl_msg(mem, FALSE, UAC2_CS_CUR, value, index,
                                  buf.bytes, size, oc)
             t == Tx(FALSE, UAC2_CS_CUR, value, index, size,
                     Take(buf.bytes, size), r.ret)
         IN  IF r.ret < 0
             THEN [ret |-> r.ret, txs |-> <<t>>, mem |-> r.mem]
             ELSE [ret |-> 0, txs |-> <<t>>, mem |-> r.mem]

\* audiobox_vsl_set_control: one SET_CUR
audiobox_vsl_set_control(mixer, mem, unit_id, control_selector, channel, buf, size, oc) ==
    IF ~mixer.valid \/ buf.null
    THEN [ret |-> -EINVAL, txs |-> <<>>, mem |-> mem]
    ELSE IF size = 0 \/ size > 4
    THEN [ret |-> -EINVAL, txs |-> <<>>, mem |-> mem]
    ELSE LET value == control_selector * 256 + channel
             index == unit_id * 256 + mixer.ifnum
             r == snd_usb_ctl_msg(mem, FALSE, UAC2_CS_CUR, value, index,
                                  buf.bytes, size, oc)
             t == Tx(FALSE, UAC2_CS_CUR, value, index, size,
                     Take(buf.bytes, size), r.ret)
         IN  IF r.ret < 0
             THEN [ret |-> r.ret, txs |-> <<t>>, mem |-> r.mem]
             ELSE [ret |-> 0, txs |-> <<t>>, mem |-> r.mem]

\* a non-NULL buffer holding the bytes b
Buf(b) == [null |-> FALSE, bytes |-> b]

----------------------------------------------------------------------------
(* Volume control (stereo L/R) *)

\* (s16)(buf[0] | (buf[1] << 8)): little-endian signed 16-bit decoding
DecodeS16(b) == ToS16(b[1] + 256 * b[2])

\* the encoding with the two bytes in the opposite order
EncodeS16_BigEndian(v) == <<(v \div 256) % 256, v % 256>>

\* buf[0] = v & 0xFF; buf[1] = (v >> 8) & 0xFF for an s16 v
EncodeS16(v) == <<v % 256, (v \div 256) % 256>>

\* the conversion with a quotient rounded toward minus infinity (a shift)
device_to_host_Floor(value_raw) == (value_raw * 100) \div 256

\* the conversion with the formula of the opposite direction
device_to_host_Swapped(value_raw) == TruncDiv(value_raw * 256, 100)

\* UAC2 (1/256 dB) to ALSA (0.01 dB): ((s32)value_raw * 100) / 256
device_to_host(value_raw) == TruncDiv(value_raw * 100, 256)

\* the clamp without its upper limit
Clamp_NoMax(alsa_value) ==
    IF alsa_value < VSL_VOLUME_MIN_DB THEN VSL_VOLUME_MIN_DB ELSE alsa_value

\* the clamp of the put path, on the s32 alsa_value
Clamp(alsa_value) ==
    LET lo == IF alsa_value < VSL_VOLUME_MIN_DB THEN VSL_VOLUME_MIN_DB ELSE alsa_value
    IN  IF lo > VSL_VOLUME_MAX_DB THEN VSL_VOLUME_MAX_DB ELSE lo

\* the conversion with a quotient rounded toward minus infinity
host_to_device_Floor(alsa_value) == ToS16((alsa_value * 256) \div 100)

\* ALSA (0.01 dB) to UAC2 (1/256 dB): (s16)((alsa_value * 256) / 100)
host_to_device(alsa_value) == ToS16(TruncDiv(alsa_value * 256, 100))

\* what the put path makes of one entry of the caller's value array: the long
\* is assigned to the s32 alsa_value, clamped, converted and encoded
PutBytes(l) == EncodeS16(host_to_device(Clamp(LongToS32(l))))

\* audiobox_vsl_volume_get without the return after a failed left read
audiobox_vsl_volume_get_NoEarlyReturn(elem, uc, mem, o1, o2) ==
    IF ~elem.mixer.valid
    THEN [ret |-> -EINVAL, txs |-> <<>>, ucontrol |-> uc, mem |-> mem]
    ELSE LET r1 == audiobox_vsl_get_control(elem.mixer, mem, elem.control,
                       UAC2_FU_VOLUME, 1, Buf(<<0, 0>>), 2, o1)
             uc1 == [uc EXCEPT ![1] = Long(device_to_host(DecodeS16(r1.bytes)))]
             r2 == audiobox_vsl_get_control(elem.mixer, r1.mem, elem.control,
                       UAC2_FU_VOLUME, 2, Buf(r1.bytes), 2, o2)
         IN  IF r2.ret < 0
             THEN [ret |-> r2.ret, txs |-> r1.txs \o r2.txs,
                   ucontrol |-> uc1, mem |-> r2.mem]
             ELSE [ret |-> r1.ret, txs |-> r1.txs \o r2.txs,
                   ucontrol |-> [uc1 EXCEPT
                       ![2] = Long(device_to_host(DecodeS16(r2.bytes)))],
                   mem |-> r2.mem]

\* audiobox_vsl_volume_get storing both gains only after both reads completed
audiobox_vsl_volume_get_StoreLate(elem, uc, mem, o1, o2) ==
    IF ~elem.mixer.valid
    THEN [ret |-> -EINVAL, txs |-> <<>>, ucontrol |-> uc, mem |-> mem]
    ELSE LET r1 == audiobox_vsl_get_control(elem.mixer, mem, elem.control,
                       UAC2_FU_VOLUME, 1, Buf(<<0, 0>>), 2, o1)
         IN  IF r1.ret < 0
             THEN [ret |-> r1.ret, txs |-> r1.txs, ucontrol |-> uc, mem |-> r1.mem]
             ELSE LET uc1 == [uc EXCEPT ![1] = Long(device_to_host(DecodeS16(r1.bytes)))]
                      r2 == audiobox_vsl_get_control(elem.mixer, r1.mem, elem.control,
                                UAC2_FU_VOLUME, 2, Buf(r1.bytes), 2, o2)
                  IN  IF r2.ret < 0
                      THEN [ret |-> r2.ret, txs |-> r1.txs \o r2.txs,
                            ucontrol |-> uc, mem |-> r2.mem]
                      ELSE [ret |-> 0, txs |-> r1.txs \o r2.txs,
                            ucontrol |-> [uc1 EXCEPT
                                ![2] = Long(device_to_host(DecodeS16(r2.bytes)))],
                            mem |-> r2.mem]

\* audiobox_vsl_volume_get.  elem = [mixer, control]; uc is the caller's value
\* array; o1, o2 are the outcomes of the first and the second transaction.
\* The stack buffer buf[2] is filled by each successful 2-byte read.
audiobox_vsl_volume_get(elem, uc, mem, o1, o2) ==
    IF ~elem.mixer.valid
    THEN [ret |-> -EINVAL, txs |-> <<>>, ucontrol |-> uc, mem |-> mem]
    ELSE LET r1 == audiobox_vsl_get_control(elem.mixer, mem, elem.control,
                       UAC2_FU_VOLUME, 1, Buf(<<0, 0>>), 2, o1)
         IN  IF r1.ret < 0
             THEN [ret |-> r1.ret, txs |-> r1.txs, ucontrol |-> uc, mem |-> r1.mem]
             ELSE LET uc1 == [uc EXCEPT ![1] = Long(device_to_host(DecodeS16(r1.bytes)))]
                      r2 == audiobox_vsl_get_control(elem.mixer, r1.mem, elem.control,
                                UAC2_FU_VOLUME, 2, Buf(r1.bytes), 2, o2)
                  IN  IF r2.ret < 0
                      THEN [ret |-> r2.ret, txs |-> r1.txs \o r2.txs,
                            ucontrol |-> uc1, mem |-> r2.mem]
                      ELSE [ret |-> 0, txs |-> r1.txs \o r2.txs,
                            ucontrol |-> [uc1 EXCEPT
                                ![2] = Long(device_to_host(DecodeS16(r2.bytes)))],
                            mem |-> r2.mem]

\* audiobox_vsl_volume_put without the return after a failed left write
audiobox_vsl_volume_put_NoEarlyReturn(elem, uc, mem, o1, o2) ==
    IF ~elem.mixer.valid
    THEN [ret |-> -EINVAL, txs |-> <<>>, ucontrol |-> uc, mem |-> mem]
    ELSE LET r1 == audiobox_vsl_set_control(elem.mixer, mem, elem.control,
                       UAC2_FU_VOLUME, 1, Buf(PutBytes(uc[1])), 2, o1)
             r2 == audiobox_vsl_set_control(elem.mixer, r1.mem, elem.control,
                       UAC2_FU_VOLUME, 2, Buf(PutBytes(uc[2])), 2, o2)
         IN  IF r2.ret < 0
             THEN [ret |-> r2.ret, txs |-> r1.txs \o r2.txs,
                   ucontrol |-> uc, mem |-> r2.mem]
             ELSE [ret |-> IF r1.ret < 0 THEN r1.ret ELSE 1,
                   txs |-> r1.txs \o r2.txs, ucontrol |-> uc, mem |-> r2.mem]

\* audiobox_vsl_volume_put writing the previous left gain back when the right
\* write fails
audiobox_vsl_volume_put_Rollback(elem, uc, mem, o1, o2) ==
    IF ~elem.mixer.valid
    THEN [ret |-> -EINVAL, txs |-> <<>>, ucontrol |-> uc, mem |-> mem]
    ELSE LET r1 == audiobox_vsl_set_control(elem.mixer, mem, elem.control,
                       UAC2_FU_VOLUME, 1, Buf(PutBytes(uc[1])), 2, o1)
         IN  IF r1.ret < 0
             THEN [ret |-> r1.ret, txs |-> r1.txs, ucontrol |-> uc, mem |-> r1.mem]
             ELSE LET r2 == audiobox_vsl_set_control(elem.mixer, r1.mem, elem.control,
                                UAC2_FU_VOLUME, 2, Buf(PutBytes(uc[2])), 2, o2)
                      r3 == audiobox_vsl_set_control(elem.mixer, r2.mem, elem.control,
                                UAC2_FU_VOLUME, 1,
                                Buf(mem[<<elem.control, UAC2_FU_VOLUME, 1>>]), 2, 0)
                  IN  IF r2.ret < 0
                      THEN [ret |-> r2.ret, txs |-> r1.txs \o r2.txs \o r3.txs,
                            ucontrol |-> uc, mem |-> r3.mem]
                      ELSE [ret |-> 1, txs |-> r1.txs \o r2.txs,
                            ucontrol |-> uc, mem |-> r2.mem]

\* audiobox_vsl_volume_put: left channel, then right channel
audiobox_vsl_volume_put(elem, uc, mem, o1, o2) ==
    IF ~elem.mixer.valid
    THEN [ret |-> -EINVAL, txs |-> <<>>, ucontrol |-> uc, mem |-> mem]
    ELSE LET r1 == audiobox_vsl_set_control(elem.mixer, mem, elem.control,
                       UAC2_FU_VOLUME, 1, Buf(PutBytes(uc[1])), 2, o1)
         IN  IF r1.ret < 0
             THEN [ret |-> r1.ret, txs |-> r1.txs, ucontrol |-> uc, mem |-> r1.mem]
             ELSE LET r2 == audiobox_vsl_set_control(elem.mixer, r1.mem, elem.control,
                                UAC2_FU_VOLUME, 2, Buf(PutBytes(uc[2])), 2, o2)
                  IN  IF r2.ret < 0
                      THEN [ret |-> r2.ret, txs |-> r1.txs \o r2.txs,
                            ucontrol |-> uc, mem |-> r2.mem]
                      ELSE [ret |-> 1, txs |-> r1.txs \o r2.txs,
                            ucontrol |-> uc, mem |-> r2.mem]

----------------------------------------------------------------------------
(* Mute control *)

\* audiobox_vsl_mute_get taking only the device byte 1 for muted
audiobox_vsl_mute_get_OnlyOne(elem, uc, mem, o1) ==
    IF ~elem.mixer.valid
    THEN [ret |-> -EINVAL, txs |-> <<>>, ucontrol |-> uc, mem |-> mem]
    ELSE LET r == audiobox_vsl_get_control(elem.mixer, mem, elem.control,
                      UAC2_FU_MUTE, 0, Buf(<<0>>), 1, o1)
         IN  IF r.ret < 0
             THEN [ret |-> r.ret, txs |-> r.txs, ucontrol |-> uc, mem |-> r.mem]
             ELSE [ret |-> 0, txs |-> r.txs,
                   ucontrol |-> [uc EXCEPT
                       ![1] = Long(IF r.bytes[1] = 1 THEN 0 ELSE 1)],
                   mem |-> r.mem]

\* audiobox_vsl_mute_get: one 1-byte read on the master channel, inverted
audiobox_vsl_mute_get(elem, uc, mem, o1) ==
    IF ~elem.mixer.valid
    THEN [ret |-> -EINVAL, txs |-> <<>>, ucontrol |-> uc, mem |-> mem]
    ELSE LET r == audiobox_vsl_get_control(elem.mixer, mem, elem.control,
                      UAC2_FU_MUTE, 0, Buf(<<0>>), 1, o1)
         IN  IF r.ret < 0
             THEN [ret |-> r.ret, txs |-> r.txs, ucontrol |-> uc, mem |-> r.mem]
             ELSE [ret |-> 0, txs |-> r.txs,
                   ucontrol |-> [uc EXCEPT
                       ![1] = Long(IF r.bytes[1] = 0 THEN 1 ELSE 0)],
                   mem |-> r.mem]

\* audiobox_vsl_mute_put addressing the playback unit whatever unit the
\* control is bound to
audiobox_vsl_mute_put_PlaybackUnit(elem, uc, mem, o1) ==
    IF ~elem.mixer.valid
    THEN [ret |-> -EINVAL, txs |-> <<>>, ucontrol |-> uc, mem |-> mem]
    ELSE LET r == audiobox_vsl_set_control(elem.mixer, mem, VSL_FU_PLAYBACK_UNIT,
                      UAC2_FU_MUTE, 0, Buf(<<LongNot(uc[1])>>), 1, o1)
         IN  IF r.ret < 0
             THEN [ret |-> r.ret, txs |-> r.txs, ucontrol |-> uc, mem |-> r.mem]
             ELSE [ret |-> 1, txs |-> r.txs, ucontrol |-> uc, mem |-> r.mem]

\* audiobox_vsl_mute_put reporting a change only when the byte it wrote
\* differs from the byte the device held
audiobox_vsl_mute_put_Compare(elem, uc, mem, o1) ==
    IF ~elem.mixer.valid
    THEN [ret |-> -EINVAL, txs |-> <<>>, ucontrol |-> uc, mem |-> mem]
    ELSE LET r == audiobox_vsl_set_control(elem.mixer, mem, elem.control,
                      UAC2_FU_MUTE, 0, Buf(<<LongNot(uc[1])>>), 1, o1)
         IN  IF r.ret < 0
             THEN [ret |-> r.ret, txs |-> r.txs, ucontrol |-> uc, mem |-> r.mem]
             ELSE [ret |-> IF r.mem = mem THEN 0 ELSE 1, txs |-> r.txs,
                   ucontrol |-> uc, mem |-> r.mem]

\* audiobox_vsl_mute_put: one 1-byte write on the master channel, inverted
audiobox_vsl_mute_put(elem, uc, mem, o1) ==
    IF ~elem.mixer.valid
    THEN [ret |-> -EINVAL, txs |-> <<>>, ucontrol |-> uc, mem |-> mem]
    ELSE LET r == audiobox_vsl_set_control(elem.mixer, mem, elem.control,
                      UAC2_FU_MUTE, 0, Buf(<<LongNot(uc[1])>>), 1, o1)
         IN  IF r.ret < 0
             THEN [ret |-> r.ret, txs |-> r.txs, ucontrol |-> uc, mem |-> r.mem]
             ELSE [ret |-> 1, txs |-> r.txs, ucontrol |-> uc, mem |-> r.mem]

----------------------------------------------------------------------------
(* ALSA control definitions: the four templates.  kind stands for the       *)
(* info/get/put callbacks the template carries.                             *)

audiobox_vsl_playback_volume ==
    [name |-> "AudioBox VSL Playback Volume", kind |-> "volume"]
audiobox_vsl_playback_mute ==
    [name |-> "AudioBox VSL Playback Switch", kind |-> "mute"]
audiobox_vsl_capture_volume ==
    [name |-> "AudioBox VSL Capture Volume", kind |-> "volume"]
audiobox_vsl_capture_mute ==
    [name |-> "AudioBox VSL Capture Switch", kind |-> "mute"]

----------------------------------------------------------------------------
(* Registration *)

\* error codes the mixer registry can reject a control with
RegistryErrors == {-(ENOMEM + k) : k \in 1..MaxErr}

\* how one registration goes: does kzalloc return memory, does snd_ctl_new1
\* return a control, and what does snd_usb_mixer_add_list return
RegOutcomes ==
    {[elem |-> FALSE, kctl |-> FALSE, add |-> 0],
     [elem |-> TRUE, kctl |-> FALSE, add |-> 0],
     [elem |-> TRUE, kctl |-> TRUE, add |-> 0]}
    \cup {[elem |-> TRUE, kctl |-> TRUE, add |-> e] : e \in RegistryErrors}

\* an error message of the kernel log: which failure it reports and the
\* control it names ("" when the message names none)
ErrMsg(msg, name) == [msg |-> msg, name |-> name]

\* snd_ctl_new1: the control object built from a template and its binding
snd_ctl_new1(template, elem) ==
    [name |-> template.name, kind |-> template.kind, elem |-> elem]

\* snd_usb_mixer_add_list: the registry accepts the control or declines it
\* with an error; a declined control is left to the caller
snd_usb_mixer_add_list(list, kctl, oc) ==
    [ret |-> oc.add,
     added |-> IF oc.add < 0 THEN <<>> ELSE <<kctl>>,
     freed |-> <<>>]

\* audiobox_vsl_create_control binding every control to the playback unit
audiobox_vsl_create_control_OneUnit(mixer, template, unit_id, oc) ==
    IF ~oc.elem
    THEN [ret |-> -ENOMEM, added |-> <<>>, allocated |-> <<>>, freed |-> <<>>,
          log |-> <<ErrMsg("elem_info", "")>>]
    ELSE LET elem == [mixer |-> mixer, control |-> VSL_FU_PLAYBACK_UNIT]
         IN  IF ~oc.kctl
             THEN [ret |-> -ENOMEM, added |-> <<>>, allocated |-> <<"elem">>,
                   freed |-> <<"elem">>, log |-> <<ErrMsg("kcontrol", "")>>]
             ELSE LET kctl == snd_ctl_new1(template, elem)
                      r == snd_usb_mixer_add_list(elem, kctl, oc)
                  IN  IF r.ret < 0
                      THEN [ret |-> r.ret, added |-> r.added,
                            allocated |-> <<"elem", "kctl">>,
                            freed |-> r.freed \o <<"elem", "kctl">>,
                            log |-> <<ErrMsg("add", template.name)>>]
                      ELSE [ret |-> 0, added |-> r.added,
                            allocated |-> <<"elem", "kctl">>,
                            freed |-> r.freed, log |-> <<>>]

\* audiobox_vsl_create_control leaving without kfree(elem) when snd_ctl_new1
\* returns no control
audiobox_vsl_create_control_Leak(mixer, template, unit_id, oc) ==
    IF ~oc.elem
    THEN [ret |-> -ENOMEM, added |-> <<>>, allocated |-> <<>>, freed |-> <<>>,
          log |-> <<ErrMsg("elem_info", "")>>]
    ELSE LET elem == [mixer |-> mixer, control |-> unit_id]
         IN  IF ~oc.kctl
             THEN [ret |-> -ENOMEM, added |-> <<>>, allocated |-> <<"elem">>,
                   freed |-> <<>>, log |-> <<ErrMsg("kcontrol", "")>>]
             ELSE LET kctl == snd_ctl_new1(template, elem)
                      r == snd_usb_mixer_add_list(elem, kctl, oc)
                  IN  IF r.ret < 0
                      THEN [ret |-> r.ret, added |-> r.added,
                            allocated |-> <<"elem", "kctl">>,
                            freed |-> r.freed \o <<"elem", "kctl">>,
                            log |-> <<ErrMsg("add", template.name)>>]
                      ELSE [ret |-> 0, added |-> r.added,
                            allocated |-> <<"elem", "kctl">>,
                            freed |-> r.freed, log |-> <<>>]

\* audiobox_vsl_create_control whose message for a declined control leaves
\* the control's name out
audiobox_vsl_create_control_NoName(mixer, template, unit_id, oc) ==
    IF ~oc.elem
    THEN [ret |-> -ENOMEM, added |-> <<>>, allocated |-> <<>>, freed |-> <<>>,
          log |-> <<ErrMsg("elem_info", "")>>]
    ELSE LET elem == [mixer |-> mixer, control |-> unit_id]
         IN  IF ~oc.kctl
             THEN [ret |-> -ENOMEM, added |-> <<>>, allocated |-> <<"elem">>,
                   freed |-> <<"elem">>, log |-> <<ErrMsg("kcontrol", "")>>]
             ELSE LET kctl == snd_ctl_new1(template, elem)
                      r == snd_usb_mixer_add_list(elem, kctl, oc)
                  IN  IF r.ret < 0
                      THEN [ret |-> r.ret, added |-> r.added,
                            allocated |-> <<"elem", "kctl">>,
                            freed |-> r.freed \o <<"elem", "kctl">>,
                            log |-> <<ErrMsg("add", "")>>]
                      ELSE [ret |-> 0, added |-> r.added,
                            allocated |-> <<"elem", "kctl">>,
                            freed |-> r.freed, log |-> <<>>]

\* audiobox_vsl_create_control: ret, the control added to the mixer (if any),
\* the resources the function allocated, the resources released during the
\* call, in order, and the error messages it logged
audiobox_vsl_create_control(mixer, template, unit_id, oc) ==
    IF ~oc.elem
    THEN [ret |-> -ENOMEM, added |-> <<>>, allocated |-> <<>>, freed |-> <<>>,
          log |-> <<ErrMsg("elem_info", "")>>]
    ELSE LET elem == [mixer |-> mixer, control |-> unit_id]
         IN  IF ~oc.kctl
             THEN [ret |-> -ENOMEM, added |-> <<>>, allocated |-> <<"elem">>,
                   freed |-> <<"elem">>, log |-> <<ErrMsg("kcontrol", "")>>]
             ELSE LET kctl == snd_ctl_new1(template, elem)
                      r == snd_usb_mixer_add_list(elem, kctl, oc)
                  IN  IF r.ret < 0
                      THEN [ret |-> r.ret, added |-> r.added,
                            allocated |-> <<"elem", "kctl">>,
                            freed |-> r.freed \o <<"elem", "kctl">>,
                            log |-> <<ErrMsg("add", template.name)>>]
                      ELSE [ret |-> 0, added |-> r.added,
                            allocated |-> <<"elem", "kctl">>,
                            freed |-> r.freed, log |-> <<>>]

\* the record of one registration attempt
Attempt(template, unit_id, r) ==
    [name |-> template.name, unit |-> unit_id, ret |-> r.ret,
     allocated |-> r.allocated, freed |-> r.freed, log |-> r.log]

\* snd_audiobox_vsl_init going on to the fourth registration when the third
\* one fails
snd_audiobox_vsl_init_NoAbort(mixer, ocs) ==
    IF ~mixer.valid
    THEN [ret |-> -EINVAL, added |-> <<>>, attempts |-> <<>>]
    ELSE
    LET r1 == audiobox_vsl_create_control(mixer, audiobox_vsl_playback_volume,
                                          VSL_FU_PLAYBACK_UNIT, ocs[1])
        a1 == <<Attempt(audiobox_vsl_playback_volume, VSL_FU_PLAYBACK_UNIT, r1)>>
        r2 == audiobox_vsl_create_control(mixer, audiobox_vsl_playback_mute,
                                          VSL_FU_PLAYBACK_UNIT, ocs[2])
        a2 == a1 \o <<Attempt(audiobox_vsl_playback_mute, VSL_FU_PLAYBACK_UNIT, r2)>>
        r3 == audiobox_vsl_create_control(mixer, audiobox_vsl_capture_volume,
                                          VSL_FU_CAPTURE_UNIT, ocs[3])
        a3 == a2 \o <<Attempt(audiobox_vsl_capture_volume, VSL_FU_CAPTURE_UNIT, r3)>>
        r4 == audiobox_vsl_create_control(mixer, audiobox_vsl_capture_mute,
                                          VSL_FU_CAPTURE_UNIT, ocs[4])
        a4 == a3 \o <<Attempt(audiobox_vsl_capture_mute, VSL_FU_CAPTURE_UNIT, r4)>>
    IN  IF r1.ret < 0
        THEN [ret |-> r1.ret, added |-> r1.added, attempts |-> a1]
        ELSE IF r2.ret < 0
        THEN [ret |-> r2.ret, added |-> r1.added \o r2.added, attempts |-> a2]
        ELSE IF r4.ret < 0
        THEN [ret |-> r4.ret,
              added |-> r1.added \o r2.added \o r3.added \o r4.added,
              attempts |-> a4]
        ELSE [ret |-> r3.ret,
              added |-> r1.added \o r2.added \o r3.added \o r4.added,
              attempts |-> a4]


\* snd_audiobox_vsl_init: the four registrations in order, leaving at the
\* first error.  ocs[k] is how the k-th registration goes if it is reached.
snd_audiobox_vsl_init(mixer, ocs) ==
    IF ~mixer.valid
    THEN [ret |-> -EINVAL, added |-> <<>>, attempts |-> <<>>]
    ELSE
    LET r1 == audiobox_vsl_create_control(mixer, audiobox_vsl_playback_volume,
                                          VSL_FU_PLAYBACK_UNIT, ocs[1])
        a1 == <<Attempt(audiobox_vsl_playback_volume, VSL_FU_PLAYBACK_UNIT, r1)>>
        r2 == audiobox_vsl_create_control(mixer, audiobox_vsl_playback_mute,
                                          VSL_FU_PLAYBACK_UNIT, ocs[2])
        a2 == a1 \o <<Attempt(audiobox_vsl_playback_mute, VSL_FU_PLAYBACK_UNIT, r2)>>
        r3 == audiobox_vsl_create_control(mixer, audiobox_vsl_capture_volume,
                                          VSL_FU_CAPTURE_UNIT, ocs[3])
        a3 == a2 \o <<Attempt(audiobox_vsl_capture_volume, VSL_FU_CAPTURE_UNIT, r3)>>
        r4 == audiobox_vsl_create_control(mixer, audiobox_vsl_capture_mute,
                                          VSL_FU_CAPTURE_UNIT, ocs[4])
        a4 == a3 \o <<Attempt(audiobox_vsl_capture_mute, VSL_FU_CAPTURE_UNIT, r4)>>
    IN  IF r1.ret < 0
        THEN [ret |-> r1.ret, added |-> r1.added, attempts |-> a1]
        ELSE IF r2.ret < 0
        THEN [ret |-> r2.ret, added |-> r1.added \o r2.added, attempts |-> a2]
        ELSE IF r3.ret < 0
        THEN [ret |-> r3.ret, added |-> r1.added \o r2.added \o r3.added,
              attempts |-> a3]
        ELSE IF r4.ret < 0
        THEN [ret |-> r4.ret,
              added |-> r1.added \o r2.added \o r3.added \o r4.added,
              attempts |-> a4]
        ELSE [ret |-> 0,
              added |-> r1.added \o r2.added \o r3.added \o r4.added,
              attempts |-> a4]

----------------------------------------------------------------------------
(* The state machine *)

\* the mixer interface the driver is attached to
Mixer == [valid |-> TRUE, ifnum |-> bInterfaceNumber]

\* longs that do not fit in 32 bits: 2^32, 2^32 - 7000 and -2^32 + 1300
WideInputs ==
    <<[hi |-> 1, lo |-> 0], [hi |-> 0, lo |-> -7000], [hi |-> -1, lo |-> 1300]>>

\* (left, right) values a caller may hand to a volume put: the limits of the
\* gain range, values just beyond them in both orders, and longs that do not
\* fit in 32 bits
HostPairs ==
    {<<Long(VSL_VOLUME_MIN_DB), Long(VSL_VOLUME_MAX_DB)>>,
     <<Long(VSL_VOLUME_MIN_DB - 1), Long(VSL_VOLUME_MAX_DB + 1)>>,
     <<Long(VSL_VOLUME_MAX_DB + 1), Long(VSL_VOLUME_MIN_DB - 1)>>}
    \cup {<<WideInputs[i], WideInputs[(i % 3) + 1]>> : i \in 1..3}

\* values a caller may hand to a mute put
MuteInputs == {Long(0), Long(1), Long(2)}

\* what a caller's value array holds, per entry, where the caller has not set
\* it: a long no get can produce (2^32)
Stale == [hi |-> 1, lo |-> 0]

\* how a call that issues up to n transactions can go on the bus: every
\* transaction completes, or the k-th is the first to fail
TransportRuns(n) ==
    {[i \in 1..n |-> 0]}
    \cup {[i \in 1..k |-> IF i < k THEN 0 ELSE e] : k \in 1..n, e \in TransportErrors}

\* the outcome of the k-th transaction of a run (reached only if k-1 completed)
Outcome(run, k) == IF k <= Len(run) THEN run[k] ELSE 0

\* the device at power-on: every gain 0, nothing muted
DeviceReset ==
    [c \in Cells |-> IF c[2] = UAC2_FU_VOLUME THEN <<0, 0>> ELSE <<0>>]

\* the record of a call: size is the size argument of a direct call of the
\* low-level helpers (0 for the callbacks, which take none), addr its
\* control_selector and channel arguments (empty for the callbacks), ptrs
\* says whether every pointer handed in was non-NULL
Call(op, unit, size, ptrs, r) ==
    [op |-> op, unit |-> unit, addr |-> <<>>, size |-> size, ptrs |-> ptrs,
     ret |-> r.ret, txs |-> r.txs]

NoCall ==
    [op |-> "none", unit |-> 0, addr |-> <<>>, size |-> 0, ptrs |-> TRUE,
     ret |-> 0, txs |-> <<>>]

\* the callers that may be inside a volume callback at the same time
Procs == 1..NumProcs

\* a caller that is in no callback
Idle ==
    [op |-> "none", pc |-> "idle", uc |-> <<Stale, Stale>>, ret |-> 0, seen |-> {}]

NoneRunning == [p \in Procs |-> Idle]

Init ==
    /\ bInterfaceNumber = 0
    /\ device = DeviceReset
    /\ registry = <<>>
    /\ attempts = <<>>
    /\ initState = "NotStarted"
    /\ ucontrol = <<Stale, Stale>>
    /\ last = NoCall
    /\ running = NoneRunning

\* device attach: mixer_quirks.c calls snd_audiobox_vsl_init once
InitCall ==
    /\ initState = "NotStarted"
    /\ \E valid \in BOOLEAN, ocs \in [1..4 -> RegOutcomes] :
        LET r == snd_audiobox_vsl_init([Mixer EXCEPT !.valid = valid], ocs)
        IN  /\ registry' = registry \o r.added
            /\ attempts' = r.attempts
            /\ initState' = IF r.ret < 0 THEN "Failed" ELSE "Complete"
            /\ last' = [NoCall EXCEPT !.op = "init", !.ptrs = valid, !.ret = r.ret]
    /\ UNCHANGED <<running, bInterfaceNumber, device, ucontrol>>

\* The callbacks run on behalf of the mixer once the device is attached; a
\* failed attach makes the caller give the device up, so nothing is called.
\* The mixer calls the get callback of a registered volume control.
VolumeGet ==
    /\ initState = "Complete"
    /\ \E i \in 1..Len(registry), run \in TransportRuns(2) :
        /\ registry[i].kind = "volume"
        /\ LET r == audiobox_vsl_volume_get(registry[i].elem, <<Stale, Stale>>, device,
                                            Outcome(run, 1), Outcome(run, 2))
           IN  /\ device' = r.mem
               /\ ucontrol' = r.ucontrol
               /\ last' = Call("volume_get", registry[i].elem.control, 0, TRUE, r)
    /\ UNCHANGED <<running, bInterfaceNumber, registry, attempts, initState>>

\* the mixer calls the put callback of a registered volume control with the
\* caller's values
VolumePut ==
    /\ initState = "Complete"
    /\ \E i \in 1..Len(registry), uc \in HostPairs, run \in TransportRuns(2) :
        /\ registry[i].kind = "volume"
        /\ LET r == audiobox_vsl_volume_put(registry[i].elem, uc, device,
                                            Outcome(run, 1), Outcome(run, 2))
           IN  /\ device' = r.mem
               /\ ucontrol' = r.ucontrol
               /\ last' = Call("volume_put", registry[i].elem.control, 0, TRUE, r)
    /\ UNCHANGED <<running, bInterfaceNumber, registry, attempts, initState>>

MuteGet ==
    /\ initState = "Complete"
    /\ \E i \in 1..Len(registry), run \in TransportRuns(1) :
        /\ registry[i].kind = "mute"
        /\ LET r == audiobox_vsl_mute_get(registry[i].elem, <<Stale, Stale>>, device,
                                          Outcome(run, 1))
           IN  /\ device' = r.mem
               /\ ucontrol' = r.ucontrol
               /\ last' = Call("mute_get", registry[i].elem.control, 0, TRUE, r)
    /\ UNCHANGED <<running, bInterfaceNumber, registry, attempts, initState>>

MutePut ==
    /\ initState = "Complete"
    /\ \E i \in 1..Len(registry), f \in MuteInputs, run \in TransportRuns(1) :
        /\ registry[i].kind = "mute"
        /\ LET r == audiobox_vsl_mute_put(registry[i].elem, <<f, Stale>>, device,
                                          Outcome(run, 1))
           IN  /\ device' = r.mem
               /\ ucontrol' = r.ucontrol
               /\ last' = Call("mute_put", registry[i].elem.control, 0, TRUE, r)
    /\ UNCHANGED <<running, bInterfaceNumber, registry, attempts, initState>>

Next == InitCall \/ VolumeGet \/ VolumePut \/ MuteGet \/ MutePut

Spec == Init /\ [][Next]_vars

----------------------------------------------------------------------------
(* The codecs over the range of device gains: the device is attached and    *)
(* holds some gain; the mixer reads the volume and may store back what it   *)
(* read.                                                                    *)

\* the device-native limits of the gain range
DeviceMin == host_to_device(VSL_VOLUME_MIN_DB)
DeviceMax == host_to_device(VSL_VOLUME_MAX_DB)

\* device gains the codec specification starts from: windows around the ends
\* of the 16-bit range, the ends of the gain range and zero
GainSamples ==
    {d \in S16_MIN..S16_MAX :
        \E c \in {S16_MIN, DeviceMin, 0, DeviceMax, S16_MAX} :
            c - Window <= d /\ d <= c + Window}

AttachedMixer == [valid |-> TRUE, ifnum |-> 0]

AllRegistered == [k \in 1..4 |-> [elem |-> TRUE, kctl |-> TRUE, add |-> 0]]

InitCodec ==
    /\ bInterfaceNumber = 0
    /\ \E d \in GainSamples :
        device = [DeviceReset EXCEPT
            ![<<VSL_FU_PLAYBACK_UNIT, UAC2_FU_VOLUME, 1>>] = EncodeS16(d),
            ![<<VSL_FU_PLAYBACK_UNIT, UAC2_FU_VOLUME, 2>>] = EncodeS16(-1 - d)]
    /\ registry = snd_audiobox_vsl_init(AttachedMixer, AllRegistered).added
    /\ attempts = snd_audiobox_vsl_init(AttachedMixer, AllRegistered).attempts
    /\ initState = "Complete"
    /\ ucontrol = <<Stale, Stale>>
    /\ last = [NoCall EXCEPT !.op = "init"]
    /\ running = NoneRunning

\* the caller stores back the values the preceding volume get delivered
VolumeWriteBack ==
    /\ initState = "Complete"
    /\ last.op = "volume_get"
    /\ last.ret = 0
    /\ \E i \in 1..Len(registry), run \in TransportRuns(2) :
        /\ registry[i].kind = "volume"
        /\ registry[i].elem.control = last.unit
        /\ LET r == audiobox_vsl_volume_put(registry[i].elem, ucontrol, device,
                                            Outcome(run, 1), Outcome(run, 2))
           IN  /\ device' = r.mem
               /\ ucontrol' = r.ucontrol
               /\ last' = Call("volume_put", registry[i].elem.control, 0, TRUE, r)
    /\ UNCHANGED <<running, bInterfaceNumber, registry, attempts, initState>>

NextCodec == VolumeGet \/ VolumeWriteBack

SpecCodec == InitCodec /\ [][NextCodec]_vars

----------------------------------------------------------------------------
(* The low-level helpers called directly, with any size and any pointers    *)

\* the largest value of a u8 argument
U8_MAX == 255

\* the (unit, selector, channel) the direct calls address: two values of the
\* device, and the largest unit, selector and channel a u8 can hold
CtlCells ==
    {<<VSL_FU_PLAYBACK_UNIT, UAC2_FU_MUTE, 0>>,
     <<VSL_FU_PLAYBACK_UNIT, UAC2_FU_VOLUME, 1>>,
     <<U8_MAX, U8_MAX, U8_MAX>>}

\* the pointers of a direct call: all valid, mixer (or chip, or dev) NULL,
\* buf NULL
PointerCases ==
    {[mixer |-> TRUE, buf |-> TRUE], [mixer |-> FALSE, buf |-> TRUE],
     [mixer |-> TRUE, buf |-> FALSE]}

InitCtl ==
    /\ bInterfaceNumber \in {0, 3, U8_MAX}
    /\ device = DeviceReset
    /\ registry = <<>>
    /\ attempts = <<>>
    /\ initState = "NotStarted"
    /\ ucontrol = <<Stale, Stale>>
    /\ last = NoCall
    /\ running = NoneRunning

\* audiobox_vsl_get_control called with a zeroed buffer of size bytes
GetControlCall ==
    /\ \E p \in PointerCases, c \in CtlCells, size \in 0..MaxSize,
          oc \in TransportOutcomes :
        LET r == audiobox_vsl_get_control([Mixer EXCEPT !.valid = p.mixer], device,
                     c[1], c[2], c[3],
                     [null |-> ~p.buf, bytes |-> [k \in 1..size |-> 0]], size, oc)
        IN  /\ device' = r.mem
            /\ last' = [Call("get_control", c[1], size, p.mixer /\ p.buf, r)
                           EXCEPT !.addr = <<c[2], c[3]>>]
    /\ UNCHANGED <<running, bInterfaceNumber, registry, attempts, initState, ucontrol>>

\* audiobox_vsl_set_control called with the size bytes 1, 2, ..
SetControlCall ==
    /\ \E p \in PointerCases, c \in CtlCells, size \in 0..MaxSize,
          oc \in TransportOutcomes :
        LET r == audiobox_vsl_set_control([Mixer EXCEPT !.valid = p.mixer], device,
                     c[1], c[2], c[3],
                     [null |-> ~p.buf, bytes |-> [k \in 1..size |-> k]], size, oc)
        IN  /\ device' = r.mem
            /\ last' = [Call("set_control", c[1], size, p.mixer /\ p.buf, r)
                           EXCEPT !.addr = <<c[2], c[3]>>]
    /\ UNCHANGED <<running, bInterfaceNumber, registry, attempts, initState, ucontrol>>

NextCtl == GetControlCall \/ SetControlCall

SpecCtl == InitCtl /\ [][NextCtl]_vars

----------------------------------------------------------------------------
(* Properties *)

\* the signed value of a two-byte little-endian two's-complement encoding
SignedLE(b) ==
    IF b[2] >= 128 THEN b[1] + 256 * b[2] - 65536 ELSE b[1] + 256 * b[2]

\* the gain the device holds for a channel of a unit
Gain(mem, unit, ch) == SignedLE(mem[<<unit, UAC2_FU_VOLUME, ch>>])

\* q is the quotient a / b truncated toward zero (b > 0)
IsTruncQuot(q, a, b) ==
    IF a >= 0
    THEN q >= 0 /\ q * b <= a /\ a < (q + 1) * b
    ELSE q <= 0 /\ q * b >= a /\ a > (q - 1) * b

\* x < y for two 32-bit words read as unsigned
UnsignedLess(x, y) == (x >= 0 /\ y < 0) \/ ((x < 0) = (y < 0) /\ x < y)

\* a < b for two longs
LongLess(a, b) == a.hi < b.hi \/ (a.hi = b.hi /\ UnsignedLess(a.lo, b.lo))

\* the long holds a value that fits in 32 bits
FitsS32(l) == l = Long(l.lo)

\* the channel a transaction addresses
Channel(t) == t.wValue % 256

DirectCalls == {"get_control", "set_control"}

\* C1: a direct read or write whose size is outside 1..4 returns -EINVAL,
\* issues no transaction and leaves the device as it was
C1_BadSizeRejected ==
    [][(last'.op \in DirectCalls /\ (last'.size < 1 \/ last'.size > 4))
        => (last'.ret = -EINVAL /\ last'.txs = <<>> /\ device' = device)]_vars

\* a write of 5 bytes with valid pointers has been rejected
C1_Witness ==
    last.op = "set_control" /\ last.size = 5 /\ last.ptrs /\ last.ret = -EINVAL

\* C2: a fully successful volume put issued exactly two writes, channel 1
\* then channel 2; a put whose left write failed issued nothing else and
\* returned the error of that write
C2_PutLeftThenRight ==
    last.op = "volume_put" =>
        /\ Len(last.txs) <= 2
        /\ \A k \in 1..Len(last.txs) : ~last.txs[k].dirIn /\ Channel(last.txs[k]) = k
        /\ last.ret = 1 =>
            (Len(last.txs) = 2 /\ \A k \in 1..2 : last.txs[k].ret >= 0)
        /\ (Len(last.txs) >= 1 /\ last.txs[1].ret < 0) =>
            (Len(last.txs) = 1 /\ last.ret = last.txs[1].ret)

\* a volume put whose left write failed
C2_Witness ==
    last.op = "volume_put" /\ Len(last.txs) = 1 /\ last.txs[1].ret < 0
    /\ last.ret = last.txs[1].ret

\* C3: a volume get reads channel 1 then channel 2, 2 bytes each; when the
\* channel-1 read failed it issued nothing else, returned that error and the
\* caller's value array is as the caller handed it in
C3_GetLeftThenRight ==
    last.op = "volume_get" =>
        /\ Len(last.txs) <= 2
        /\ \A k \in 1..Len(last.txs) :
            last.txs[k].dirIn /\ Channel(last.txs[k]) = k /\ last.txs[k].size = 2
        /\ last.ret = 0 => Len(last.txs) = 2
        /\ (Len(last.txs) >= 1 /\ last.txs[1].ret < 0) =>
            /\ Len(last.txs) = 1
            /\ last.ret = last.txs[1].ret
            /\ ucontrol = <<Stale, Stale>>

\* a volume get whose channel-1 read failed
C3_Witness ==
    last.op = "volume_get" /\ Len(last.txs) = 1 /\ last.txs[1].ret < 0
    /\ last.ret = last.txs[1].ret /\ ucontrol = <<Stale, Stale>>

\* C4: whatever long the caller hands in for a channel, a value below -6000
\* is written as -15360 and a value above 1200 as 3072
C4_ClampEveryInput ==
    last.op = "volume_put" =>
        \A k \in 1..Len(last.txs) :
            /\ LongLess(ucontrol[k], Long(VSL_VOLUME_MIN_DB)) =>
                SignedLE(last.txs[k].data) = -15360
            /\ LongLess(Long(VSL_VOLUME_MAX_DB), ucontrol[k]) =>
                SignedLE(last.txs[k].data) = 3072

\* C5: after a successful volume get, each entry delivered is the gain the
\* device holds for that channel, times 100, divided by 256, truncated toward
\* zero
C5_DeviceToHostTruncates ==
    (last.op = "volume_get" /\ last.ret = 0) =>
        \A k \in 1..2 :
            /\ FitsS32(ucontrol[k])
            /\ SignedLE(last.txs[k].data) = Gain(device, last.unit, k)
            /\ IsTruncQuot(ucontrol[k].lo, Gain(device, last.unit, k) * 100, 256)

\* the device gain -3 has been read as -1 (rounded toward zero, not to -2)
C5_Witness ==
    /\ last.op = "volume_get" /\ last.ret = 0
    /\ Gain(device, last.unit, 1) = -3
    /\ ucontrol[1] = Long(-1)

\* C6: for a host gain inside [-6000, 1200] the two bytes a volume put sends
\* are the little-endian two's-complement encoding of the gain times 256,
\* divided by 100, truncated toward zero, a value that fits in 16 bits
C6_HostToDeviceTruncates ==
    last.op = "volume_put" =>
        \A k \in 1..Len(last.txs) :
            (/\ FitsS32(ucontrol[k])
             /\ VSL_VOLUME_MIN_DB <= ucontrol[k].lo
             /\ ucontrol[k].lo <= VSL_VOLUME_MAX_DB)
            => /\ Len(last.txs[k].data) = 2
               /\ \A i \in 1..2 : last.txs[k].data[i] \in Bytes
               /\ SignedLE(last.txs[k].data) \in S16_MIN..S16_MAX
               /\ IsTruncQuot(SignedLE(last.txs[k].data), ucontrol[k].lo * 256, 100)

\* the host gain -1 has been sent as -2 (bytes FE FF)
C6_Witness ==
    /\ last.op = "volume_put"
    /\ Len(last.txs) >= 1
    /\ ucontrol[1] = Long(-1)
    /\ last.txs[1].data = <<254, 255>>

\* a step in which the caller stores back, with success, what the preceding
\* successful volume get of the same control delivered
WriteBackStep ==
    /\ last.op = "volume_get" /\ last.ret = 0
    /\ last'.op = "volume_put" /\ last'.ret = 1
    /\ last'.unit = last.unit
    /\ ucontrol' = ucontrol

\* the gains of the stored-back unit inside the gain range move by at most n
RoundTripWithin(n) ==
    WriteBackStep =>
        \A ch \in 1..2 :
            LET d == Gain(device, last.unit, ch)
                e == Gain(device', last.unit, ch)
            IN  (DeviceMin <= d /\ d <= DeviceMax) => (e - d <= n /\ d - e <= n)

\* C7 as stated: host_to_device(device_to_host(d)) is within 1 device unit of
\* d for every d in [-15360, 3072]
C7_RoundTripWithin1 == [][RoundTripWithin(1)]_vars

\* C7 as amended: host_to_device(device_to_host(d)) is within 3 device units
\* of d for every d in [-15360, 3072]
C7_RoundTripWithin3 == [][RoundTripWithin(3)]_vars

\* the host gain 1, read from a device gain of 3, 4 or 5, has been stored
\* back as the device gain 2
C7_Witness ==
    /\ last.op = "volume_put" /\ last.ret = 1
    /\ ucontrol[1] = Long(1)
    /\ Gain(device, last.unit, 1) = 2

BoundaryGains == <<Long(-6000), Long(1200)>>

\* C8: a successful volume put of (-6000, 1200) leaves the device of that
\* unit at (-15360, 3072), and a successful volume get of the same unit right
\* after it delivers (-6000, 1200)
C8_BoundaryRoundTrip ==
    [][/\ (last'.op = "volume_put" /\ last'.ret = 1 /\ ucontrol' = BoundaryGains)
            => (Gain(device', last'.unit, 1) = -15360
                /\ Gain(device', last'.unit, 2) = 3072)
       /\ (/\ last.op = "volume_put" /\ last.ret = 1 /\ ucontrol = BoundaryGains
           /\ last'.op = "volume_get" /\ last'.ret = 0 /\ last'.unit = last.unit)
            => ucontrol' = BoundaryGains]_vars

\* a volume get has delivered (-6000, 1200) from a device at (-15360, 3072)
C8_Witness ==
    /\ last.op = "volume_get" /\ last.ret = 0
    /\ ucontrol = BoundaryGains
    /\ Gain(device, last.unit, 1) = -15360
    /\ Gain(device, last.unit, 2) = 3072

MuteCell(unit) == <<unit, UAC2_FU_MUTE, 0>>

Units == {VSL_FU_PLAYBACK_UNIT, VSL_FU_CAPTURE_UNIT}

\* C9: a successful mute get that follows a successful mute put of the flag f
\* (0 or 1) on the same unit delivers f.  For the gets that come later: such
\* a put leaves the device holding the inverse of f for that unit, nothing but
\* a successful mute put on that unit changes it, and a successful mute get
\* delivers the inverse of what the device holds
C9_MuteRoundTrip ==
    [][/\ (/\ last.op = "mute_put" /\ last.ret = 1
           /\ ucontrol[1] \in {Long(0), Long(1)}
           /\ last'.op = "mute_get" /\ last'.ret = 0 /\ last'.unit = last.unit)
            => ucontrol'[1] = ucontrol[1]
       /\ \A u \in Units :
            device'[MuteCell(u)] # device[MuteCell(u)]
                => (last'.op = "mute_put" /\ last'.ret = 1 /\ last'.unit = u)
       /\ (last'.op = "mute_put" /\ last'.ret = 1
           /\ ucontrol'[1] \in {Long(0), Long(1)})
            => device'[MuteCell(last'.unit)] = <<1 - ucontrol'[1].lo>>
       /\ (last'.op = "mute_get" /\ last'.ret = 0
           /\ device'[MuteCell(last'.unit)] \in {<<0>>, <<1>>})
            => ucontrol'[1] = Long(1 - device'[MuteCell(last'.unit)][1])]_vars

\* the capture unit, muted by a put of 0, has been read back as 0
C9_Witness ==
    /\ last.op = "mute_get" /\ last.ret = 0
    /\ last.unit = VSL_FU_CAPTURE_UNIT
    /\ device[MuteCell(VSL_FU_CAPTURE_UNIT)] = <<1>>
    /\ ucontrol[1] = Long(0)

\* the four controls in the order of registration, each with its unit
ExpectedControls ==
    <<<<"AudioBox VSL Playback Volume", 10>>, <<"AudioBox VSL Playback Switch", 10>>,
      <<"AudioBox VSL Capture Volume", 11>>, <<"AudioBox VSL Capture Switch", 11>>>>

\* C10: when initialization has run and no registration it attempted failed,
\* it attempted and registered exactly the four controls, in order, each
\* bound to its unit, it is Complete and it returned 0
C10_InitRegistersFour ==
    (/\ initState # "NotStarted"
     /\ Len(attempts) > 0
     /\ \A i \in 1..Len(attempts) : attempts[i].ret >= 0)
    => /\ initState = "Complete"
       /\ [i \in 1..Len(attempts) |-> <<attempts[i].name, attempts[i].unit>>]
            = ExpectedControls
       /\ [i \in 1..Len(registry) |-> <<registry[i].name, registry[i].elem.control>>]
            = ExpectedControls
       /\ last.op = "init" => last.ret = 0

\* initialization has just completed with the four controls registered
C10_Witness ==
    /\ last.op = "init" /\ last.ret = 0
    /\ initState = "Complete"
    /\ Len(registry) = 4

----------------------------------------------------------------------------
(* Registration failures *)

\* the first n controls of the fixed registration order
FirstControls(n) == SubSeq(ExpectedControls, 1, n)

\* the first registration attempt that failed
FirstFailed ==
    CHOOSE k \in 1..Len(attempts) :
        attempts[k].ret < 0 /\ \A j \in 1..(k - 1) : attempts[j].ret >= 0

\* is a control of this name in the registry
Registered(name) == \E j \in 1..Len(registry) : registry[j].name = name

\* C11: when registration step k is the first to fail, initialization is
\* Failed, step k is the last step attempted (k+1..4 are never attempted),
\* the steps attempted are the first k of the fixed order, the value returned
\* is step k's error, and the registry holds exactly the controls of steps
\* 1..k-1
C11_FirstFailureAborts ==
    (\E i \in 1..Len(attempts) : attempts[i].ret < 0)
    => LET k == FirstFailed
       IN  /\ initState = "Failed"
           /\ Len(attempts) = k
           /\ [i \in 1..k |-> <<attempts[i].name, attempts[i].unit>>]
                = FirstControls(k)
           /\ [i \in 1..Len(registry) |-> <<registry[i].name, registry[i].elem.control>>]
                = FirstControls(k - 1)
           /\ \A i \in 1..4 : Registered(ExpectedControls[i][1]) <=> i < k
           /\ last.op = "init"
           /\ last.ret = attempts[k].ret

\* the registry has rejected the 3rd control: initialization failed with the
\* registry's error, controls 1 and 2 are registered, Capture Switch was
\* never attempted
C11_Witness ==
    /\ initState = "Failed"
    /\ Len(attempts) = 3
    /\ attempts[3].ret \in RegistryErrors
    /\ last.ret = attempts[3].ret
    /\ Len(registry) = 2
    /\ ~Registered(audiobox_vsl_capture_mute.name)

\* how often x occurs in the sequence s
Count(s, x) == Cardinality({i \in 1..Len(s) : s[i] = x})

\* C12: a registration that failed released every resource it had allocated
\* exactly once, whichever step of it failed, and its control is not in the
\* registry; a registration that succeeded allocated the binding and the
\* control object, released nothing, and its control is in the registry
C12_ReleaseExactlyOnce ==
    \A i \in 1..Len(attempts) :
        LET a == attempts[i]
        IN  /\ \A x \in {"elem", "kctl"} : Count(a.allocated, x) <= 1
            /\ a.ret < 0 =>
                 /\ \A x \in {"elem", "kctl"} :
                        Count(a.freed, x) = Count(a.allocated, x)
                 /\ ~Registered(a.name)
            /\ a.ret >= 0 =>
                 /\ a.allocated = <<"elem", "kctl">>
                 /\ a.freed = <<>>
                 /\ Registered(a.name)

\* the first registration succeeded and released nothing; the second one was
\* declined by the registry after both its resources had been allocated
C12_Witness ==
    /\ Len(attempts) = 2
    /\ attempts[1].ret = 0
    /\ attempts[1].freed = <<>>
    /\ attempts[2].ret \in RegistryErrors
    /\ attempts[2].allocated = <<"elem", "kctl">>
    /\ Count(attempts[2].freed, "elem") = 1
    /\ Count(attempts[2].freed, "kctl") = 1
    /\ ~Registered(attempts[2].name)

----------------------------------------------------------------------------
(* Transport errors, partial application and the range of the set path *)

Callbacks == {"volume_get", "volume_put", "mute_get", "mute_put"}

\* the number of helper calls a callback makes when none of them fails
HelperCalls(op) == IF op \in {"volume_get", "volume_put"} THEN 2 ELSE 1

\* C13: every helper call that passed its checks issued one transaction: a
\* direct call issued exactly one and returned its error unchanged; a
\* callback issued at most one per helper call, none of them a repetition of
\* another and none after one that failed, and when one failed the callback
\* returned exactly the error the transport reported for it
C13_OneTransactionErrorVerbatim ==
    /\ (last.op \in DirectCalls /\ last.ptrs /\ last.size \in 1..4) =>
        /\ Len(last.txs) = 1
        /\ last.txs[1].ret < 0 => last.ret = last.txs[1].ret
    /\ last.op \in Callbacks =>
        LET n == Len(last.txs)
        IN  /\ n >= 1 /\ n <= HelperCalls(last.op)
            /\ \A i \in 1..n : \A j \in 1..n :
                   i # j => <<last.txs[i].wValue, last.txs[i].wIndex>>
                              # <<last.txs[j].wValue, last.txs[j].wIndex>>
            /\ \A i \in 1..(n - 1) : last.txs[i].ret >= 0
            /\ last.txs[n].ret < 0 =>
                   last.ret = last.txs[n].ret /\ last.ret \in TransportErrors
            /\ last.txs[n].ret >= 0 => n = HelperCalls(last.op) /\ last.ret >= 0

\* a mute put whose only transaction failed returned the transport's error
C13_Witness ==
    /\ last.op = "mute_put"
    /\ Len(last.txs) = 1
    /\ last.txs[1].ret \in TransportErrors
    /\ last.ret = last.txs[1].ret

\* every transaction of the call completed
AllCompleted(c) == \A i \in 1..Len(c.txs) : c.txs[i].ret >= 0

C17_PartialApplication ==
    [][(/\ last'.op = "volume_put"
        /\ Len(last'.txs) >= 2
        /\ last'.txs[1].ret >= 0
        /\ last'.txs[2].ret < 0)
       => /\ Len(last'.txs) = 2
          /\ last'.ret = last'.txs[2].ret
          /\ device'[<<last'.unit, UAC2_FU_VOLUME, 1>>] = last'.txs[1].data
          /\ device'[<<last'.unit, UAC2_FU_VOLUME, 2>>]
               = device[<<last'.unit, UAC2_FU_VOLUME, 2>>]
          /\ \A c \in Cells \ {<<last'.unit, UAC2_FU_VOLUME, 1>>} :
               device'[c] = device[c]]_vars

\* only the left channel was applied: the put of (minimum, maximum) failed on
\* the right write, the device holds the minimum on the left and still 0 on
\* the right
C17_Witness ==
    /\ last.op = "volume_put"
    /\ Len(last.txs) = 2
    /\ last.txs[1].ret >= 0
    /\ last.txs[2].ret \in TransportErrors
    /\ last.ret = last.txs[2].ret
    /\ SignedLE(last.txs[2].data) = DeviceMax
    /\ Gain(device, last.unit, 1) = DeviceMin
    /\ Gain(device, last.unit, 2) = 0

\* C19: every volume write carries two bytes that decode, little-endian
\* signed, to a gain in [-15360, 3072], and the gains the device holds stay
\* in that range whatever the callers hand in
C19_WrittenGainsInRange ==
    /\ last.op = "volume_put" =>
        \A k \in 1..Len(last.txs) :
            /\ Len(last.txs[k].data) = 2
            /\ SignedLE(last.txs[k].data) >= -15360
            /\ SignedLE(last.txs[k].data) <= 3072
            /\ \E h \in (device_to_host(SignedLE(last.txs[k].data)) - 1)
                          ..(device_to_host(SignedLE(last.txs[k].data)) + 1) :
                   /\ h >= VSL_VOLUME_MIN_DB /\ h <= VSL_VOLUME_MAX_DB
                   /\ SignedLE(last.txs[k].data) = host_to_device(h)
    /\ \A c \in Cells :
        c[2] = UAC2_FU_VOLUME =>
            SignedLE(device[c]) >= -15360 /\ SignedLE(device[c]) <= 3072

\* a put of longs that do not fit in 32 bits completed: 2^32 - 7000 on the
\* left, -2^32 + 1300 on the right
C19_Witness ==
    /\ last.op = "volume_put"
    /\ last.ret = 1
    /\ ucontrol = <<WideInputs[2], WideInputs[3]>>
    /\ SignedLE(last.txs[1].data) = DeviceMin
    /\ SignedLE(last.txs[2].data) = DeviceMax

----------------------------------------------------------------------------
(* What a failed initialization reports *)

\* the error messages the registration attempts logged, in order
RECURSIVE Logged(_)
Logged(atts) ==
    IF atts = <<>> THEN <<>>
    ELSE Logged(SubSeq(atts, 1, Len(atts) - 1)) \o atts[Len(atts)].log

\* the report of a failed initialization: the value returned and the error
\* messages logged (the message of the error label repeats that value)
FailureReport(ret, atts) == [ret |-> ret, log |-> Logged(atts)]

\* no run of the initialization that fails at another step gives the report
\* this one gave
ReportIdentifiesStep ==
    \A ocs \in [1..4 -> RegOutcomes] :
        LET r == snd_audiobox_vsl_init(Mixer, ocs)
        IN  (r.ret < 0 /\ FailureReport(r.ret, r.attempts)
                            = FailureReport(last.ret, attempts))
            => Len(r.attempts) = Len(attempts)

\* C16 as stated: whenever a registration step failed, whatever the cause,
\* the report of the failed initialization identifies the step
C16_ReportIdentifiesStep ==
    (initState = "Failed" /\ Len(attempts) > 0) => ReportIdentifiesStep

\* C16: a failed initialization returns the error of the step that failed;
\* when the registry declined the control, the message logged names that
\* control and the report identifies the step; when an allocation failed,
\* the report is -ENOMEM with a message that names no control
C16_ReportNamesRejectedControl ==
    (initState = "Failed" /\ Len(attempts) > 0) =>
        LET a == attempts[Len(attempts)]
            rep == FailureReport(last.ret, attempts)
        IN  /\ rep.ret = a.ret
            /\ a.allocated = <<"elem", "kctl">> =>
                 /\ rep.ret \in RegistryErrors
                 /\ rep.log = <<ErrMsg("add", a.name)>>
                 /\ ReportIdentifiesStep
            /\ a.allocated # <<"elem", "kctl">> =>
                 /\ rep.ret = -ENOMEM
                 /\ Len(rep.log) = 1
                 /\ rep.log[1].name = ""

\* the second registration failed for want of memory for the control object:
\* the report is -ENOMEM and names no control
C16_Witness ==
    /\ initState = "Failed"
    /\ Len(attempts) = 2
    /\ attempts[2].allocated = <<"elem">>
    /\ last.ret = -ENOMEM
    /\ FailureReport(last.ret, attempts).log = <<ErrMsg("kcontrol", "")>>

----------------------------------------------------------------------------
(* Addressing of the transactions *)

\* C14: the transaction of a direct read or write carries the request
\* UAC2_CS_CUR (1), a wValue of 16 bits with the selector in the high byte
\* and the channel in the low byte, a wIndex of 16 bits with the unit in the
\* high byte and the interface number of the mixer in the low byte, and the
\* size handed in; a read is an IN transfer, a write an OUT transfer
C14_TransactionAddressing ==
    (last.op \in DirectCalls /\ last.txs # <<>>) =>
        LET t == last.txs[1]
        IN  /\ Len(last.txs) = 1
            /\ t.request = 1
            /\ t.wValue \in 0..65535
            /\ t.wValue \div 256 = last.addr[1]
            /\ t.wValue % 256 = last.addr[2]
            /\ t.wIndex \in 0..65535
            /\ t.wIndex \div 256 = last.unit
            /\ t.wIndex % 256 = bInterfaceNumber
            /\ t.size = last.size
            /\ t.dirIn <=> last.op = "get_control"

\* a write to unit 255, selector 255, channel 255 on interface 255 went out
\* with wValue = wIndex = 0xFFFF
C14_Witness ==
    /\ last.op = "set_control"
    /\ bInterfaceNumber = U8_MAX
    /\ last.unit = U8_MAX
    /\ last.addr = <<U8_MAX, U8_MAX>>
    /\ Len(last.txs) = 1
    /\ ~last.txs[1].dirIn
    /\ last.txs[1].wValue = 65535
    /\ last.txs[1].wIndex = 65535

----------------------------------------------------------------------------
(* The mute codec over any device byte and any caller flag: the device is   *)
(* attached and its two mute controls hold some byte each.                  *)

\* bytes the device may hold for a mute control
MuteBytes == {0, 1, 2, U8_MAX}

\* flags a caller may hand to a mute put: 0, 1, 2, -1 and 2^32, whose low
\* word is 0
MuteFlags == MuteInputs \cup {Long(-1), [hi |-> 1, lo |-> 0]}

InitMute ==
    /\ bInterfaceNumber = 0
    /\ \E b1 \in MuteBytes, b2 \in MuteBytes :
        device = [DeviceReset EXCEPT
            ![<<VSL_FU_PLAYBACK_UNIT, UAC2_FU_MUTE, 0>>] = <<b1>>,
            ![<<VSL_FU_CAPTURE_UNIT, UAC2_FU_MUTE, 0>>] = <<b2>>]
    /\ registry = snd_audiobox_vsl_init(AttachedMixer, AllRegistered).added
    /\ attempts = snd_audiobox_vsl_init(AttachedMixer, AllRegistered).attempts
    /\ initState = "Complete"
    /\ ucontrol = <<Stale, Stale>>
    /\ last = [NoCall EXCEPT !.op = "init"]
    /\ running = NoneRunning

\* the mixer calls the put callback of a registered mute control with any
\* flag of the caller
MutePutAnyFlag ==
    /\ initState = "Complete"
    /\ \E i \in 1..Len(registry), f \in MuteFlags, run \in TransportRuns(1) :
        /\ registry[i].kind = "mute"
        /\ LET r == audiobox_vsl_mute_put(registry[i].elem, <<f, Stale>>, device,
                                          Outcome(run, 1))
           IN  /\ device' = r.mem
               /\ ucontrol' = r.ucontrol
               /\ last' = Call("mute_put", registry[i].elem.control, 0, TRUE, r)
    /\ UNCHANGED <<running, bInterfaceNumber, registry, attempts, initState>>

NextMute == MuteGet \/ MutePutAnyFlag

SpecMute == InitMute /\ [][NextMute]_vars

\* the transaction is one byte on channel 0 of the unit's mute control
IsMuteTransfer(t, unit) ==
    /\ t.size = 1
    /\ t.request = UAC2_CS_CUR
    /\ t.wValue = UAC2_FU_MUTE * 256
    /\ t.wIndex \div 256 = unit

\* C20: a mute get issues exactly one 1-byte read on channel 0 with the mute
\* selector and, when it completes, delivers 1 if the byte the device holds
\* is 0 and 0 for every other byte; a mute put issues exactly one 1-byte
\* write on channel 0 with the mute selector whose byte is 1 if the caller's
\* flag is 0 and 0 for every other flag
C20_MutePolarity ==
    [][/\ last'.op = "mute_get" =>
            /\ Len(last'.txs) = 1
            /\ last'.txs[1].dirIn
            /\ IsMuteTransfer(last'.txs[1], last'.unit)
            /\ last'.ret = 0 =>
                 /\ ucontrol'[1] \in {Long(0), Long(1)}
                 /\ ucontrol'[1] = Long(1) <=> device[MuteCell(last'.unit)] = <<0>>
       /\ last'.op = "mute_put" =>
            /\ Len(last'.txs) = 1
            /\ ~last'.txs[1].dirIn
            /\ IsMuteTransfer(last'.txs[1], last'.unit)
            /\ last'.txs[1].data \in {<<0>>, <<1>>}
            /\ last'.txs[1].data = <<1>> <=> ucontrol'[1] = Long(0)]_vars

\* a mute get has read the byte 255 from the device and delivered 0
C20_Witness ==
    /\ last.op = "mute_get"
    /\ last.ret = 0
    /\ last.txs[1].data = <<U8_MAX>>
    /\ device[MuteCell(last.unit)] = <<U8_MAX>>
    /\ ucontrol[1] = Long(0)

----------------------------------------------------------------------------
(* Callers inside the volume callbacks of the playback unit at the same     *)
(* time.  The callbacks take no lock; the bus carries one transaction at a  *)
(* time, so a step is one transaction of one caller.                        *)

\* the part of audiobox_vsl_volume_get that reads one channel: the transfer,
\* and on success the converted gain stored in the caller's value array
volume_get_channel_LeftOnly(elem, uc, mem, ch, oc) ==
    LET r == audiobox_vsl_get_control(elem.mixer, mem, elem.control,
                 UAC2_FU_VOLUME, 1, Buf(<<0, 0>>), 2, oc)
    IN  [ret |-> r.ret,
         ucontrol |-> IF r.ret < 0 THEN uc
                      ELSE [uc EXCEPT ![ch] = Long(device_to_host(DecodeS16(r.bytes)))],
         mem |-> r.mem]

volume_get_channel(elem, uc, mem, ch, oc) ==
    LET r == audiobox_vsl_get_control(elem.mixer, mem, elem.control,
                 UAC2_FU_VOLUME, ch, Buf(<<0, 0>>), 2, oc)
    IN  [ret |-> r.ret,
         ucontrol |-> IF r.ret < 0 THEN uc
                      ELSE [uc EXCEPT ![ch] = Long(device_to_host(DecodeS16(r.bytes)))],
         mem |-> r.mem]

\* the part of audiobox_vsl_volume_put that writes one channel
volume_put_channel(elem, uc, mem, ch, oc) ==
    LET r == audiobox_vsl_set_control(elem.mixer, mem, elem.control,
                 UAC2_FU_VOLUME, ch, Buf(PutBytes(uc[ch])), 2, oc)
    IN  [ret |-> r.ret, ucontrol |-> uc, mem |-> r.mem]

\* one channel of the callback the caller is in
volume_channel(op, elem, uc, mem, ch, oc) ==
    IF op = "volume_get" THEN volume_get_channel(elem, uc, mem, ch, oc)
    ELSE volume_put_channel(elem, uc, mem, ch, oc)

\* the call each caller makes: the first one puts the minimum on both
\* channels, the second one the maximum on both channels, the others get
ConcCall(p) ==
    IF p = 1
    THEN [op |-> "volume_put",
          uc |-> <<Long(VSL_VOLUME_MIN_DB), Long(VSL_VOLUME_MIN_DB)>>]
    ELSE IF p = 2
    THEN [op |-> "volume_put",
          uc |-> <<Long(VSL_VOLUME_MAX_DB), Long(VSL_VOLUME_MAX_DB)>>]
    ELSE [op |-> "volume_get", uc |-> <<Stale, Stale>>]

\* the control all callers work on
ConcElem == [mixer |-> Mixer, control |-> VSL_FU_PLAYBACK_UNIT]

\* the (left, right) gains the device holds for the unit
DevicePair(mem) ==
    <<SignedLE(mem[<<VSL_FU_PLAYBACK_UNIT, UAC2_FU_VOLUME, 1>>]),
      SignedLE(mem[<<VSL_FU_PLAYBACK_UNIT, UAC2_FU_VOLUME, 2>>])>>

\* every caller that is inside a get notes the state the device is in now
Noting(run, mem) ==
    [q \in Procs |->
        IF run[q].op = "volume_get" /\ run[q].pc \in {"left", "right"}
        THEN [run[q] EXCEPT !.seen = @ \cup {DevicePair(mem)}]
        ELSE run[q]]

InitConc ==
    /\ bInterfaceNumber = 0
    /\ device = DeviceReset
    /\ registry = snd_audiobox_vsl_init(AttachedMixer, AllRegistered).added
    /\ attempts = snd_audiobox_vsl_init(AttachedMixer, AllRegistered).attempts
    /\ initState = "Complete"
    /\ ucontrol = <<Stale, Stale>>
    /\ last = [NoCall EXCEPT !.op = "init"]
    /\ running = NoneRunning

\* a caller enters a volume callback of the playback unit
ConcEnter ==
    /\ initState = "Complete"
    /\ \E p \in Procs :
        /\ running[p].pc = "idle"
        /\ running' = Noting([running EXCEPT ![p] =
               [op |-> ConcCall(p).op, pc |-> "left", uc |-> ConcCall(p).uc,
                ret |-> 0, seen |-> {}]], device)
    /\ UNCHANGED <<bInterfaceNumber, device, registry, attempts, initState,
                   ucontrol, last>>

\* the left-channel transaction of a caller; on failure the callback returns
ConcLeft ==
    /\ \E p \in Procs, oc \in TransportOutcomes :
        /\ running[p].pc = "left"
        /\ LET r == volume_channel(running[p].op, ConcElem, running[p].uc,
                                   device, 1, oc)
           IN  /\ device' = r.mem
               /\ running' = Noting([running EXCEPT ![p] =
                      [@ EXCEPT !.uc = r.ucontrol,
                                !.pc = IF r.ret < 0 THEN "done" ELSE "right",
                                !.ret = IF r.ret < 0 THEN r.ret ELSE 0]], r.mem)
    /\ UNCHANGED <<bInterfaceNumber, registry, attempts, initState, ucontrol, last>>

\* the right-channel transaction of a caller, after which the callback
\* returns: the error, 0 from a get, 1 from a put
ConcRight ==
    /\ \E p \in Procs, oc \in TransportOutcomes :
        /\ running[p].pc = "right"
        /\ LET r == volume_channel(running[p].op, ConcElem, running[p].uc,
                                   device, 2, oc)
           IN  /\ device' = r.mem
               /\ running' = [Noting(running, r.mem) EXCEPT ![p] =
                      [@ EXCEPT !.uc = r.ucontrol,
                                !.pc = "done",
                                !.ret = IF r.ret < 0 THEN r.ret
                                        ELSE IF running[p].op = "volume_get" THEN 0
                                        ELSE 1]]
    /\ UNCHANGED <<bInterfaceNumber, registry, attempts, initState, ucontrol, last>>

NextConc == ConcEnter \/ ConcLeft \/ ConcRight

SpecConc == InitConc /\ [][NextConc]_vars

\* the host gains a get delivers for the device gains d
HostPair(d) == <<Long(device_to_host(d[1])), Long(device_to_host(d[2]))>>

\* the caller has returned from a get that completed
GetDone(p) ==
    running[p].op = "volume_get" /\ running[p].pc = "done" /\ running[p].ret = 0

\* the caller has returned from a put that completed
PutDone(p) ==
    running[p].op = "volume_put" /\ running[p].pc = "done" /\ running[p].ret = 1

\* the get of the caller delivered a pair the device held at no instant of
\* the call
Torn(p) == GetDone(p) /\ running[p].uc \notin {HostPair(d) : d \in running[p].seen}

\* C18: with one transaction at a time and no lock in the callbacks, a get
\* delivers for each channel a gain the device held for that channel at some
\* instant of the call, not necessarily the same instant for both; and once
\* the put of (a, a) and the put of (b, b) have both completed, each channel
\* of the device holds a or b, in any of the four combinations
C18_InterleavingEnvelope ==
    /\ \A p \in Procs :
        GetDone(p) =>
            \E d1 \in running[p].seen, d2 \in running[p].seen :
                running[p].uc = <<HostPair(d1)[1], HostPair(d2)[2]>>
    /\ (PutDone(1) /\ PutDone(2)) =>
        DevicePair(device) \in {DeviceMin, DeviceMax} \X {DeviceMin, DeviceMax}

\* the two puts have interleaved and left the device at (a, b), and a get
\* that ran meanwhile delivered a pair the device never held
C18_Witness ==
    /\ PutDone(1)
    /\ PutDone(2)
    /\ DevicePair(device) = <<DeviceMin, DeviceMax>>
    /\ \E p \in Procs : Torn(p)

----------------------------------------------------------------------------
(* Frame of the callbacks *)

\* the selector the callback addresses
Selector(op) == IF op \in {"volume_get", "volume_put"} THEN UAC2_FU_VOLUME ELSE UAC2_FU_MUTE

\* the kind of control the callback belongs to
Kind(op) == IF op \in {"volume_get", "volume_put"} THEN "volume" ELSE "mute"

\* C21: the controls of the registry keep, once registered, the unit they
\* were bound to at registration (Playback controls 10, Capture controls 11);
\* every transaction of a callback goes to the unit of a registered control
\* of its kind and to the selector of that kind; and a callback leaves every
\* device value of the other unit and of the other selector as it was
C21_UnitIsolation ==
    [][/\ initState # "NotStarted" => registry' = registry
       /\ \A i \in 1..Len(registry') :
            \E k \in 1..4 :
                <<registry'[i].name, registry'[i].elem.control>> = ExpectedControls[k]
       /\ last'.op \in Callbacks =>
            /\ \E i \in 1..Len(registry') :
                 /\ registry'[i].kind = Kind(last'.op)
                 /\ registry'[i].elem.control = last'.unit
            /\ \A k \in 1..Len(last'.txs) :
                 /\ last'.txs[k].wIndex \div 256 = last'.unit
                 /\ last'.txs[k].wValue \div 256 = Selector(last'.op)
            /\ \A c \in Cells :
                 (c[1] # last'.unit \/ c[2] # Selector(last'.op))
                     => device'[c] = device[c]]_vars

\* a mute put on the Capture unit has muted it; the Playback mute and every
\* gain of both units are as at power-on
C21_Witness ==
    /\ last.op = "mute_put"
    /\ last.unit = VSL_FU_CAPTURE_UNIT
    /\ last.ret = 1
    /\ device[MuteCell(VSL_FU_CAPTURE_UNIT)] = <<1>>
    /\ \A c \in Cells \ {MuteCell(VSL_FU_CAPTURE_UNIT)} : device[c] = DeviceReset[c]

\* a volume get whose channel-1 read completed and whose channel-2 read failed
LateFailure ==
    /\ last.op = "volume_get"
    /\ Len(last.txs) = 2
    /\ last.txs[1].ret >= 0
    /\ last.txs[2].ret < 0

\* C22 as stated: after a volume get whose channel-2 read failed, the call
\* has returned that error and the caller's value array is as it was before
\* the call, in both entries
C22_NoPartialResult ==
    LateFailure => (last.ret = last.txs[2].ret /\ ucontrol = <<Stale, Stale>>)

\* C22: after a volume get whose channel-2 read failed, the call has returned
\* that error, the right entry of the caller's value array is as it was
\* before the call and the left entry holds the converted channel-1 gain
C22_LeftStoredOnLateFailure ==
    LateFailure =>
        /\ last.ret = last.txs[2].ret
        /\ ucontrol[2] = Stale
        /\ ucontrol[1] = Long(device_to_host(SignedLE(last.txs[1].data)))

\* the channel-2 read failed after the channel-1 read had delivered the
\* minimum gain: the caller's left entry holds -6000
C22_Witness ==
    /\ LateFailure
    /\ last.ret \in TransportErrors
    /\ SignedLE(last.txs[1].data) = DeviceMin
    /\ ucontrol = <<Long(VSL_VOLUME_MIN_DB), Stale>>

====
